---- MODULE Spec2Model ----
(***************************************************************************)
(* A model of cvxpy/constraints/exponential.py: the exponential cone       *)
(* constraint ExpCone and its quadrature approximation RelEntrQuad.        *)
(*                                                                         *)
(* The state is one constraint under study (con), the expression leaves    *)
(* and the quadrature parameters the caller builds constraints from        *)
(* (leaves, params), the leaves that hold a numeric value (valued), the    *)
(* ambient DPP analysis scope (dpp_scope_active, with the saved states of  *)
(* the scopes the callers entered, scope_stack) and the record of the last *)
(* call and what it returned or raised (last).                             *)
(***************************************************************************)
EXTENDS Integers, Sequences, FiniteSets, TLC

VARIABLES leaves, params, valued, con, dpp_scope_active, scope_stack, last

vars == <<leaves, params, valued, con, dpp_scope_active, scope_stack, last>>

(***************************************************************************)
(* Bounds of the model.                                                    *)
(***************************************************************************)
\* The largest extent of one axis of an operand's shape.
MaxDim == 2
\* The largest quadrature parameter m or k a caller passes.
MaxParam == 2
\* The deepest nesting of DPP scopes the callers enter around a call.
MaxScopeDepth == 1

(***************************************************************************)
(* Python's None and an optional value: <<>> is None, <<v>> holds v.       *)
(***************************************************************************)
None == <<>>

Some(v) == <<v>>

IsNone(o) == Len(o) = 0

Get(o) == o[1]

(***************************************************************************)
(* Shapes, leaves and terms of the expression graph.                       *)
(***************************************************************************)
Dims == 0..MaxDim

\* Shape tuples of scalars, vectors and matrices.
Shapes == {<<>>} \cup {<<a>> : a \in Dims} \cup {<<a, b>> : a \in Dims, b \in Dims}

\* What a caller hands to a constructor: a raw numeric array, a Variable, a
\* product of two Parameters, or the square of a Variable.
Kinds == {"Variable", "ParamProduct", "Square"}

\* A raw numeric array of shape s, not yet an Expression.
Raw(s) == [id |-> 0, kind |-> "Raw", shape |-> s]

\* The operand shape of the scenarios that vary the kinds of the operands.
KindShape == <<2>>

\* The scenarios: what the caller has at hand to build constraints from.
\* Raw arrays of one or two shapes; or a Variable and a second leaf of any
\* kind, both of one shape; or a raw scalar, a scalar Variable and the
\* quadrature parameters 0..MaxParam.
Scenarios ==
    {[leaves |-> {Raw(s), Raw(t)}, params |-> {1}] : s \in Shapes, t \in Shapes}
    \cup
    {[leaves |-> {[id |-> 1, kind |-> "Variable", shape |-> KindShape],
                  [id |-> 2, kind |-> k, shape |-> KindShape]},
      params |-> {1}] : k \in Kinds}
    \cup
    {[leaves |-> {Raw(<<>>), [id |-> 1, kind |-> "Variable", shape |-> <<>>]},
      params |-> 0..MaxParam]}

\* A term: a leaf under a number of unary negations.
Term(l, n) == [leaf |-> l, negs |-> n]

\* Expression.cast_to_const: an Expression is returned as it is, anything
\* else is wrapped in a Constant.
cast_to_const(t) ==
    IF t.leaf.kind = "Raw" THEN [t EXCEPT !.leaf.kind = "Constant"] ELSE t

\* Expression.__neg__: -t.
Neg(t) == [t EXCEPT !.negs = @ + 1]

\* Variable(shape): a fresh Variable, the i-th one a call builds.
Variable(s, i) == Term([id |-> 2 + i, kind |-> "Variable", shape |-> s], 0)

\* Expression.shape: negation keeps the shape of its argument.
shape_of(t) == t.leaf.shape

RECURSIVE Prod(_)
Prod(s) == IF Len(s) = 0 THEN 1 ELSE Head(s) * Prod(Tail(s))

\* Expression.size: the number of scalar entries.
size_of(t) == Prod(shape_of(t))

\* Expression.value is None until the leaf under the term has a value; a
\* Constant always has one.
value_is_None(t, vals) == ~(t.leaf.kind = "Constant" \/ t.leaf.id \in vals)

\* Expression.is_affine under the analysis mode in force: inside the DPP scope
\* a Parameter counts as a variable, so a product of two is not affine.
is_affine(t, scope_active) ==
    CASE t.leaf.kind \in {"Constant", "Variable"} -> TRUE
      [] t.leaf.kind = "ParamProduct" -> ~scope_active
      [] OTHER -> FALSE

\* scopes.dpp_scope, entering: the mode inside the scope.
dpp_scope_enter(prev) == TRUE

\* scopes.dpp_scope, leaving: the mode that was in force before is restored.
dpp_scope_exit(prev) == prev

\* Constraint.__init__: the operand list and one dual variable per operand,
\* none with a value yet.
Constraint_init(args) == [args |-> args, dual_variables |-> [i \in 1..Len(args) |-> None]]

(***************************************************************************)
(* numpy arrays: a shape and the entries in row-major order.               *)
(***************************************************************************)
Array(s, d) == [err |-> FALSE, shape |-> s, data |-> d]

ArrayError == [err |-> TRUE, shape |-> <<>>, data |-> <<>>]

\* np.reshape(value, newshape=(-1, 3)) of a flat vector: the row count is
\* inferred, and the call fails when the length is no multiple of 3.
np_reshape_rows3(value) ==
    IF Len(value) % 3 # 0 THEN ArrayError ELSE Array(<<Len(value) \div 3, 3>>, value)

\* A column read as if the vector held the three operands one after another.
np_column_blocked(a, j) ==
    Array(<<a.shape[1]>>, [i \in 1..a.shape[1] |-> a.data[j * a.shape[1] + i]])

\* value[:, j] of an array of shape (rows, 3): a vector of length rows.
np_column(a, j) == Array(<<a.shape[1]>>, [i \in 1..a.shape[1] |-> a.data[3 * (i - 1) + j + 1]])

\* A reshape that checks no length.
np_reshape_unchecked(a, s) == Array(s, a.data)

\* np.reshape(a, newshape=s): fails unless s holds as many entries as a; the
\* entries keep their row-major order.
np_reshape(a, s) == IF Len(a.data) # Prod(s) THEN ArrayError ELSE Array(s, a.data)

(***************************************************************************)
(* Construction.                                                           *)
(***************************************************************************)
\* A shape test that forgets z.
ShapeMismatch_xy_only(xs, ys, zs) == xs # ys

\* The shape test of both constructors.
ShapeMismatch(xs, ys, zs) == xs # ys \/ xs # zs

\* ExpCone.__init__: the instance, or the ValueError of the shape test.
ExpCone_init(x, y, z) ==
    LET sx == cast_to_const(x)
        sy == cast_to_const(y)
        sz == cast_to_const(z)
        base == Constraint_init(<<sx, sy, sz>>)
    IN  IF ShapeMismatch(shape_of(sx), shape_of(sy), shape_of(sz))
        THEN [raised |-> "ValueError", self |-> None]
        ELSE [raised |-> "",
              self |-> Some([variant |-> "ExpCone", x |-> sx, y |-> sy, z |-> sz,
                             args |-> base.args,
                             dual_variables |-> base.dual_variables])]

\* A constructor that refuses m or k below 1.
RelEntrQuad_init_validating(x, y, z, m, k) ==
    LET sx == cast_to_const(x)
        sy == cast_to_const(y)
        sz == cast_to_const(z)
        base == Constraint_init(<<sx, sy, sz>>)
    IN  IF ShapeMismatch(shape_of(sx), shape_of(sy), shape_of(sz)) \/ m < 1 \/ k < 1
        THEN [raised |-> "ValueError", self |-> None]
        ELSE [raised |-> "",
              self |-> Some([variant |-> "RelEntrQuad", x |-> sx, y |-> sy, z |-> sz,
                             m |-> m, k |-> k,
                             args |-> base.args,
                             dual_variables |-> base.dual_variables])]

\* RelEntrQuad.__init__: m and k are stored as given.
RelEntrQuad_init(x, y, z, m, k) ==
    LET sx == cast_to_const(x)
        sy == cast_to_const(y)
        sz == cast_to_const(z)
        base == Constraint_init(<<sx, sy, sz>>)
    IN  IF ShapeMismatch(shape_of(sx), shape_of(sy), shape_of(sz))
        THEN [raised |-> "ValueError", self |-> None]
        ELSE [raised |-> "",
              self |-> Some([variant |-> "RelEntrQuad", x |-> sx, y |-> sy, z |-> sz,
                             m |-> m, k |-> k,
                             args |-> base.args,
                             dual_variables |-> base.dual_variables])]

\* RelEntrQuad.get_data
RelEntrQuad_get_data(self) == <<self.m, self.k>>

\* A conversion that keeps the operands in place and negates the last.
ExpCone_as_quad_approx_in_place(self, m, k) ==
    RelEntrQuad_init(self.x, self.y, Neg(self.z), m, k)

\* ExpCone.as_quad_approx
ExpCone_as_quad_approx(self, m, k) == RelEntrQuad_init(self.y, self.z, Neg(self.x), m, k)

(***************************************************************************)
(* Elementwise cone bookkeeping.                                           *)
(***************************************************************************)
ExpCone_num_cones(self) == size_of(self.x)

ExpCone_size(self) == 3 * ExpCone_num_cones(self)

\* One entry per scalar of the constraint instead of one per cone.
ExpCone_cone_sizes_per_entry(self) == [i \in 1..ExpCone_size(self) |-> 3]

ExpCone_cone_sizes(self) == [i \in 1..ExpCone_num_cones(self) |-> 3]

ExpCone_shape(self) == <<3>> \o shape_of(self.x)

RelEntrQuad_num_cones(self) == size_of(self.x)

RelEntrQuad_size(self) == 3 * RelEntrQuad_num_cones(self)

RelEntrQuad_cone_sizes(self) == [i \in 1..RelEntrQuad_num_cones(self) |-> 3]

RelEntrQuad_shape(self) == <<3>> \o shape_of(self.x)

(***************************************************************************)
(* Convexity certification.                                                *)
(***************************************************************************)
\* all(arg.is_affine() for arg in self.args) under the mode in force.
AllAffine(args, mode) == \A i \in 1..Len(args) : is_affine(args[i], mode)

\* An is_dcp that never enters the DPP scope.
ExpCone_is_dcp_no_scope(self, dpp, active) ==
    [result |-> AllAffine(self.args, active), mode |-> active, active_after |-> active]

\* ExpCone.is_dcp: the answer, the mode the operands were analysed in and the
\* ambient mode the call leaves behind.
ExpCone_is_dcp(self, dpp, active) ==
    IF dpp
    THEN [result |-> AllAffine(self.args, dpp_scope_enter(active)),
          mode |-> dpp_scope_enter(active),
          active_after |-> dpp_scope_exit(active)]
    ELSE [result |-> AllAffine(self.args, active), mode |-> active, active_after |-> active]

\* ExpCone.is_dqcp: self.is_dcp()
ExpCone_is_dqcp(self, active) == ExpCone_is_dcp(self, FALSE, active)

RelEntrQuad_is_dcp(self, dpp, active) ==
    IF dpp
    THEN [result |-> AllAffine(self.args, dpp_scope_enter(active)),
          mode |-> dpp_scope_enter(active),
          active_after |-> dpp_scope_exit(active)]
    ELSE [result |-> AllAffine(self.args, active), mode |-> active, active_after |-> active]

\* An is_dqcp that asks for the strict analysis.
RelEntrQuad_is_dqcp_strict(self, active) == RelEntrQuad_is_dcp(self, TRUE, active)

\* RelEntrQuad.is_dqcp: self.is_dcp()
RelEntrQuad_is_dqcp(self, active) == RelEntrQuad_is_dcp(self, FALSE, active)

(***************************************************************************)
(* Dual-value recovery.                                                    *)
(***************************************************************************)
\* A save_dual_value that reads the vector as x's entries, then y's, then z's.
ExpCone_save_dual_value_blocked(self, value) ==
    LET v == np_reshape_rows3(value)
        failed == [raised |-> "ValueError", dual_variables |-> self.dual_variables]
    IN  IF v.err THEN failed
        ELSE LET dv0 == np_reshape(np_column_blocked(v, 0), shape_of(self.x))
                 dv1 == np_reshape(np_column_blocked(v, 1), shape_of(self.y))
                 dv2 == np_reshape(np_column_blocked(v, 2), shape_of(self.z))
             IN  IF dv0.err \/ dv1.err \/ dv2.err THEN failed
                 ELSE [raised |-> "",
                       dual_variables |-> <<Some(dv0), Some(dv1), Some(dv2)>>]

\* A save_dual_value whose reshapes to the operand shape test no length.
ExpCone_save_dual_value_unchecked(self, value) ==
    LET v == np_reshape_rows3(value)
        failed == [raised |-> "ValueError", dual_variables |-> self.dual_variables]
    IN  IF v.err THEN failed
        ELSE [raised |-> "",
              dual_variables |->
                <<Some(np_reshape_unchecked(np_column(v, 0), shape_of(self.x))),
                  Some(np_reshape_unchecked(np_column(v, 1), shape_of(self.y))),
                  Some(np_reshape_unchecked(np_column(v, 2), shape_of(self.z)))>>]

\* ExpCone.save_dual_value: the three reshapes come before the first
\* save_value, so a failing reshape leaves every slot as it was.
ExpCone_save_dual_value(self, value) ==
    LET v == np_reshape_rows3(value)
        failed == [raised |-> "ValueError", dual_variables |-> self.dual_variables]
    IN  IF v.err THEN failed
        ELSE LET dv0 == np_reshape(np_column(v, 0), shape_of(self.x))
                 dv1 == np_reshape(np_column(v, 1), shape_of(self.y))
                 dv2 == np_reshape(np_column(v, 2), shape_of(self.z))
             IN  IF dv0.err \/ dv1.err \/ dv2.err THEN failed
                 ELSE [raised |-> "",
                       dual_variables |-> <<Some(dv0), Some(dv1), Some(dv2)>>]

\* A save_dual_value for RelEntrQuad written as ExpCone's is.
RelEntrQuad_save_dual_value_as_ExpCone(self, value) == ExpCone_save_dual_value(self, value)

\* RelEntrQuad.save_dual_value: returns at once.
RelEntrQuad_save_dual_value(self, value) ==
    [raised |-> "", dual_variables |-> self.dual_variables]

(***************************************************************************)
(* Residual.                                                               *)
(***************************************************************************)
\* A residual that tests the value of x alone.
ExpCone_residual_x_only(self, vals, opt) ==
    IF value_is_None(self.x, vals)
    THEN [result |-> None, fresh |-> <<>>, constr |-> None, solved |-> FALSE]
    ELSE LET x == Variable(shape_of(self.x), 1)
             y == Variable(shape_of(self.y), 2)
             z == Variable(shape_of(self.z), 3)
         IN  [result |-> Some(opt), fresh |-> <<x, y, z>>,
              constr |-> ExpCone_init(x, y, z).self, solved |-> TRUE]

\* ExpCone.residual: None when an operand has no value; else three fresh
\* Variables, an ExpCone over them and the optimal value opt of the nested
\* problem.
ExpCone_residual(self, vals, opt) ==
    IF value_is_None(self.x, vals) \/ value_is_None(self.y, vals) \/ value_is_None(self.z, vals)
    THEN [result |-> None, fresh |-> <<>>, constr |-> None, solved |-> FALSE]
    ELSE LET x == Variable(shape_of(self.x), 1)
             y == Variable(shape_of(self.y), 2)
             z == Variable(shape_of(self.z), 3)
         IN  [result |-> Some(opt), fresh |-> <<x, y, z>>,
              constr |-> ExpCone_init(x, y, z).self, solved |-> TRUE]

\* RelEntrQuad.residual: the same over a RelEntrQuad with this one's m and k.
RelEntrQuad_residual(self, vals, opt) ==
    IF value_is_None(self.x, vals) \/ value_is_None(self.y, vals) \/ value_is_None(self.z, vals)
    THEN [result |-> None, fresh |-> <<>>, constr |-> None, solved |-> FALSE]
    ELSE LET x == Variable(shape_of(self.x), 1)
             y == Variable(shape_of(self.y), 2)
             z == Variable(shape_of(self.z), 3)
         IN  [result |-> Some(opt), fresh |-> <<x, y, z>>,
              constr |-> RelEntrQuad_init(x, y, z, self.m, self.k).self, solved |-> TRUE]

(***************************************************************************)
(* The inputs of the calls.                                                *)
(***************************************************************************)
\* The terms a caller passes to a constructor.
InputTerms == {Term(l, 0) : l \in leaves}

\* The dual vectors a solver returns: entries that differ pairwise.
DualVector(len, base) == [i \in 1..len |-> base + i]

\* Those handed to a constraint of n cones: two of the length 3n, and one of
\* no entries, of one cone less, of one cone more, of one entry less and of
\* one entry more.
DualVectors(n) ==
    {DualVector(3 * n, 0), DualVector(3 * n, 50)}
    \cup {DualVector(l, 0) : l \in {0, 3 * n + 1, 3 * n + 3}}
    \cup {DualVector(l, 0) : l \in {3 * n - 3, 3 * n - 1} \cap Nat}

\* The optimal values the nested solve returns: on the cone, or off it.
Distances == {0, 1}

IsExpCone == ~IsNone(con) /\ Get(con).variant = "ExpCone"

IsRelEntrQuad == ~IsNone(con) /\ Get(con).variant = "RelEntrQuad"

(***************************************************************************)
(* The actions.                                                            *)
(***************************************************************************)
Init ==
    /\ \E s \in Scenarios : leaves = s.leaves /\ params = s.params
    /\ valued = {}
    /\ con = None
    /\ dpp_scope_active = FALSE
    /\ scope_stack = <<>>
    /\ last = [op |-> "none"]

\* con = ExpCone(x, y, z); the model follows one constraint.
NewExpCone ==
    /\ IsNone(con)
    /\ \E x \in InputTerms, y \in InputTerms, z \in InputTerms :
        LET r == ExpCone_init(x, y, z)
        IN  /\ con' = r.self
            /\ last' = [op |-> "ExpCone", inputs |-> <<x, y, z>>,
                        raised |-> r.raised, result |-> r.self]
    /\ UNCHANGED <<leaves, params, valued, dpp_scope_active, scope_stack>>

\* con = RelEntrQuad(x, y, z, m, k)
NewRelEntrQuad ==
    /\ IsNone(con)
    /\ \E x \in InputTerms, y \in InputTerms, z \in InputTerms, m \in params, k \in params :
        LET r == RelEntrQuad_init(x, y, z, m, k)
        IN  /\ con' = r.self
            /\ last' = [op |-> "RelEntrQuad", inputs |-> <<x, y, z>>, m |-> m, k |-> k,
                        raised |-> r.raised, result |-> r.self]
    /\ UNCHANGED <<leaves, params, valued, dpp_scope_active, scope_stack>>

\* con.as_quad_approx(m, k)
AsQuadApprox ==
    /\ IsExpCone
    /\ \E m \in params, k \in params :
        LET r == ExpCone_as_quad_approx(Get(con), m, k)
        IN  last' = [op |-> "as_quad_approx", self_before |-> Get(con), m |-> m, k |-> k,
                     raised |-> r.raised, result |-> r.self,
                     data |-> IF IsNone(r.self) THEN <<>> ELSE RelEntrQuad_get_data(Get(r.self))]
    /\ UNCHANGED <<leaves, params, valued, con, dpp_scope_active, scope_stack>>

\* con.size, con.num_cones(), con.cone_sizes(), con.shape
Bookkeeping ==
    /\ ~IsNone(con)
    /\ LET self == Get(con)
       IN  last' = IF self.variant = "ExpCone"
                   THEN [op |-> "bookkeeping", size |-> ExpCone_size(self),
                         num_cones |-> ExpCone_num_cones(self),
                         cone_sizes |-> ExpCone_cone_sizes(self),
                         shape |-> ExpCone_shape(self)]
                   ELSE [op |-> "bookkeeping", size |-> RelEntrQuad_size(self),
                         num_cones |-> RelEntrQuad_num_cones(self),
                         cone_sizes |-> RelEntrQuad_cone_sizes(self),
                         shape |-> RelEntrQuad_shape(self)]
    /\ UNCHANGED <<leaves, params, valued, con, dpp_scope_active, scope_stack>>

\* con.is_dcp(dpp)
IsDcp ==
    /\ ~IsNone(con)
    /\ \E dpp \in BOOLEAN :
        LET self == Get(con)
            r == IF self.variant = "ExpCone"
                 THEN ExpCone_is_dcp(self, dpp, dpp_scope_active)
                 ELSE RelEntrQuad_is_dcp(self, dpp, dpp_scope_active)
        IN  /\ last' = [op |-> "is_dcp", dpp |-> dpp, result |-> r.result, mode |-> r.mode,
                        active_before |-> dpp_scope_active]
            /\ dpp_scope_active' = r.active_after
    /\ UNCHANGED <<leaves, params, valued, con, scope_stack>>

\* con.is_dqcp()
IsDqcp ==
    /\ ~IsNone(con)
    /\ LET self == Get(con)
           r == IF self.variant = "ExpCone"
                THEN ExpCone_is_dqcp(self, dpp_scope_active)
                ELSE RelEntrQuad_is_dqcp(self, dpp_scope_active)
       IN  /\ last' = [op |-> "is_dqcp", result |-> r.result,
                       active_before |-> dpp_scope_active]
           /\ dpp_scope_active' = r.active_after
    /\ UNCHANGED <<leaves, params, valued, con, scope_stack>>

\* con.save_dual_value(value)
SaveDualValue ==
    /\ ~IsNone(con)
    /\ LET self == Get(con)
       IN  \E value \in DualVectors(size_of(self.x)) :
            LET r == IF self.variant = "ExpCone"
                     THEN ExpCone_save_dual_value(self, value)
                     ELSE RelEntrQuad_save_dual_value(self, value)
            IN  /\ con' = Some([self EXCEPT !.dual_variables = r.dual_variables])
                /\ last' = [op |-> "save_dual_value", value |-> value, raised |-> r.raised,
                            self_before |-> self]
    /\ UNCHANGED <<leaves, params, valued, dpp_scope_active, scope_stack>>

\* con.residual
Residual ==
    /\ ~IsNone(con)
    /\ \E opt \in Distances :
        LET self == Get(con)
            r == IF self.variant = "ExpCone"
                 THEN ExpCone_residual(self, valued, opt)
                 ELSE RelEntrQuad_residual(self, valued, opt)
        IN  last' = [op |-> "residual", result |-> r.result, fresh |-> r.fresh,
                     constr |-> r.constr, solved |-> r.solved, opt |-> opt]
    /\ UNCHANGED <<leaves, params, valued, con, dpp_scope_active, scope_stack>>

\* A solve gives a leaf of the expression graph its value.
AssignValue ==
    /\ \E l \in leaves :
        /\ l.kind # "Raw"
        /\ l.id \notin valued
        /\ valued' = valued \cup {l.id}
        /\ last' = [op |-> "assign_value", leaf |-> l.id]
    /\ UNCHANGED <<leaves, params, con, dpp_scope_active, scope_stack>>

\* A caller enters scopes.dpp_scope() around its calls.
EnterDppScope ==
    /\ Len(scope_stack) < MaxScopeDepth
    /\ scope_stack' = Append(scope_stack, dpp_scope_active)
    /\ dpp_scope_active' = dpp_scope_enter(dpp_scope_active)
    /\ last' = [op |-> "enter_dpp_scope"]
    /\ UNCHANGED <<leaves, params, valued, con>>

\* The caller leaves its innermost scope.
ExitDppScope ==
    /\ Len(scope_stack) > 0
    /\ dpp_scope_active' = dpp_scope_exit(scope_stack[Len(scope_stack)])
    /\ scope_stack' = SubSeq(scope_stack, 1, Len(scope_stack) - 1)
    /\ last' = [op |-> "exit_dpp_scope"]
    /\ UNCHANGED <<leaves, params, valued, con>>

Next ==
    \/ NewExpCone
    \/ NewRelEntrQuad
    \/ AsQuadApprox
    \/ Bookkeeping
    \/ IsDcp
    \/ IsDqcp
    \/ SaveDualValue
    \/ Residual
    \/ AssignValue
    \/ EnterDppScope
    \/ ExitDppScope

Spec == Init /\ [][Next]_vars

(***************************************************************************)
(* The claims.                                                             *)
(***************************************************************************)
\* The operands the last constructor call was given, after the cast.
CastInputs == [i \in 1..3 |-> cast_to_const(last.inputs[i])]

\* The index tuples of an array of shape s: one per scalar element.
Indices(s) == {f \in [1..Len(s) -> 1..MaxDim] : \A i \in 1..Len(s) : f[i] <= s[i]}

RECURSIVE SumSeq(_)
SumSeq(q) == IF Len(q) = 0 THEN 0 ELSE Head(q) + SumSeq(Tail(q))

\* The flat vector that holds a[i], b[i], c[i] cone after cone.
Interleave(a, b, c) ==
    [i \in 1..(3 * Len(a)) |->
        CASE (i - 1) % 3 = 0 -> a[(i - 1) \div 3 + 1]
          [] (i - 1) % 3 = 1 -> b[(i - 1) \div 3 + 1]
          [] OTHER -> c[(i - 1) \div 3 + 1]]

\* C1: for a constraint of either variant over operands of shape S with n
\* scalar elements, num_cones() = n, size = 3n, shape = (3,) + S, cone_sizes()
\* has n entries, each 3, and size = sum(cone_sizes()) = 3 * num_cones(); also
\* after save_dual_value calls.
C1_BookkeepingAgrees ==
    last.op = "bookkeeping" =>
        LET S == shape_of(Get(con).x)
            n == Cardinality(Indices(S))
        IN  /\ last.num_cones = n
            /\ last.size = 3 * n
            /\ last.shape = <<3>> \o S
            /\ Len(last.cone_sizes) = n
            /\ \A i \in 1..Len(last.cone_sizes) : last.cone_sizes[i] = 3
            /\ last.size = SumSeq(last.cone_sizes)
            /\ last.size = 3 * last.num_cones

\* C1's case: the queries of an ExpCone of four cones and a matrix shape whose
\* dual values have been saved.
C1_Witness ==
    /\ last.op = "bookkeeping"
    /\ IsExpCone
    /\ Len(shape_of(Get(con).x)) = 2
    /\ last.num_cones = 4
    /\ ~IsNone(Get(con).dual_variables[1])

\* C2: a constructor of either variant given operands whose shapes are not all
\* the same raises the shape error and yields no instance; given three
\* operands of one shape it does not raise; so every instance has
\* shape(x) = shape(y) = shape(z).
C2_ShapeMismatchRaises ==
    /\ last.op \in {"ExpCone", "RelEntrQuad"} =>
        LET shapes == {shape_of(CastInputs[i]) : i \in 1..3}
        IN  /\ Cardinality(shapes) > 1 =>
                last.raised = "ValueError" /\ IsNone(last.result) /\ IsNone(con)
            /\ Cardinality(shapes) = 1 =>
                last.raised = "" /\ ~IsNone(last.result) /\ con = last.result
    /\ ~IsNone(con) =>
        /\ shape_of(Get(con).x) = shape_of(Get(con).y)
        /\ shape_of(Get(con).x) = shape_of(Get(con).z)

\* C2's case: RelEntrQuad refused operands of which only z differs in shape.
C2_Witness ==
    /\ last.op = "RelEntrQuad"
    /\ last.raised = "ValueError"
    /\ shape_of(CastInputs[1]) = shape_of(CastInputs[2])
    /\ shape_of(CastInputs[1]) # shape_of(CastInputs[3])

\* C3: ExpCone.save_dual_value(v) with v of length 3n stores in dual slot j an
\* array of shape S whose i-th element in row-major order is v[3i + j]; the
\* three slots, interleaved again, give v.
C3_DualRoundTrip ==
    (/\ last.op = "save_dual_value"
     /\ last.self_before.variant = "ExpCone"
     /\ Len(last.value) = 3 * Cardinality(Indices(shape_of(last.self_before.x)))) =>
        LET S == shape_of(last.self_before.x)
            n == Cardinality(Indices(S))
            slot == Get(con).dual_variables
        IN  /\ last.raised = ""
            /\ \A j \in 0..2 :
                /\ ~IsNone(slot[j + 1])
                /\ Get(slot[j + 1]).shape = S
                /\ Len(Get(slot[j + 1]).data) = n
                /\ \A i \in 0..(n - 1) : Get(slot[j + 1]).data[i + 1] = last.value[3 * i + j + 1]
            /\ Interleave(Get(slot[1]).data, Get(slot[2]).data, Get(slot[3]).data) = last.value

\* C3's case: a vector of twelve entries recovered into an ExpCone of shape
\* (2, 2).
C3_Witness ==
    /\ last.op = "save_dual_value"
    /\ last.self_before.variant = "ExpCone"
    /\ last.raised = ""
    /\ shape_of(last.self_before.x) = <<2, 2>>
    /\ Len(last.value) = 12
    /\ ~IsNone(Get(con).dual_variables[3])

\* C4: ExpCone.save_dual_value(v) with v of a length other than 3n raises, and
\* each dual slot then holds what it held before the call.
C4_BadLengthFails ==
    (/\ last.op = "save_dual_value"
     /\ last.self_before.variant = "ExpCone"
     /\ Len(last.value) # 3 * Cardinality(Indices(shape_of(last.self_before.x)))) =>
        /\ last.raised = "ValueError"
        /\ Get(con).dual_variables = last.self_before.dual_variables
        /\ con = Some(last.self_before)

\* C4's case: a vector of 3m entries, m > 0 and m # n, refused by an ExpCone
\* whose slots hold the values of an earlier call.
C4_Witness ==
    /\ last.op = "save_dual_value"
    /\ last.self_before.variant = "ExpCone"
    /\ last.raised = "ValueError"
    /\ Len(last.value) % 3 = 0
    /\ Len(last.value) > 0
    /\ ~IsNone(last.self_before.dual_variables[1])
    /\ ~IsNone(Get(con).dual_variables[1])

\* C5: as_quad_approx(m, k) of an ExpCone over (x, y, z) returns a RelEntrQuad
\* over (y, z, -x), only the third slot negated, whose get_data() is (m, k);
\* the ExpCone keeps its operands.
C5_QuadApproxOperands ==
    last.op = "as_quad_approx" =>
        /\ last.raised = ""
        /\ ~IsNone(last.result)
        /\ LET r == Get(last.result)
               self == last.self_before
           IN  /\ r.variant = "RelEntrQuad"
               /\ r.x = self.y
               /\ r.y = self.z
               /\ r.z.leaf = self.x.leaf
               /\ r.z.negs = self.x.negs + 1
               /\ r.args = <<r.x, r.y, r.z>>
        /\ last.data = <<last.m, last.k>>
        /\ con = Some(last.self_before)

\* C5's case: the conversion of an ExpCone whose x, y and z are not one term.
C5_Witness ==
    /\ last.op = "as_quad_approx"
    /\ ~IsNone(last.result)
    /\ last.self_before.x # last.self_before.y
    /\ last.self_before.y # last.self_before.z
    /\ Get(last.result).z.negs = 1

\* C6 as claimed: every RelEntrQuad, converted or constructed, has m >= 1 and
\* k >= 1.
C6_ParamsPositive ==
    /\ IsRelEntrQuad => Get(con).m >= 1 /\ Get(con).k >= 1
    /\ (last.op = "as_quad_approx" /\ ~IsNone(last.result)) =>
        Get(last.result).m >= 1 /\ Get(last.result).k >= 1

\* C6 as amended: m and k are not validated: as_quad_approx(m, k) and
\* RelEntrQuad(x, y, z, m, k) over operands of one shape succeed for every
\* integer m and k, below 1 too, and the instance carries the m and k given.
C6_ParamsCarriedUnchecked ==
    (/\ last.op \in {"as_quad_approx", "RelEntrQuad"}
     /\ (last.op = "RelEntrQuad" => Cardinality({shape_of(CastInputs[i]) : i \in 1..3}) = 1)) =>
        /\ last.raised = ""
        /\ ~IsNone(last.result)
        /\ Get(last.result).m = last.m
        /\ Get(last.result).k = last.k

\* C6's case: as_quad_approx(0, k) returned a RelEntrQuad with m = 0.
C6_Witness ==
    /\ last.op = "as_quad_approx"
    /\ last.m = 0
    /\ last.k > 0
    /\ ~IsNone(last.result)
    /\ Get(last.result).m = 0

\* C7: is_dcp of either variant is true iff x, y and z are affine in the mode
\* in force: the ambient mode without dpp, the DPP scope with dpp; the scope
\* is left when the call returns, so the ambient mode is what it was.
C7_IsDcpAffine ==
    last.op = "is_dcp" =>
        LET self == Get(con)
            mode == IF last.dpp THEN TRUE ELSE last.active_before
        IN  /\ last.result = (\A t \in {self.x, self.y, self.z} : is_affine(t, mode))
            /\ last.mode = mode
            /\ dpp_scope_active = last.active_before

\* C7's case: is_dcp(dpp=True) outside any scope on an ExpCone with a
\* product of parameters among its operands: not DCP under DPP.
C7_Witness ==
    /\ last.op = "is_dcp"
    /\ IsExpCone
    /\ last.dpp
    /\ ~last.active_before
    /\ \E t \in {Get(con).x, Get(con).y, Get(con).z} : t.leaf.kind = "ParamProduct"
    /\ ~last.result
    /\ ~dpp_scope_active

\* C8: is_dqcp() of either variant returns what is_dcp() returns.
C8_DqcpEqualsDcp ==
    last.op = "is_dqcp" =>
        /\ dpp_scope_active = last.active_before
        /\ last.result =
            IF Get(con).variant = "ExpCone"
            THEN ExpCone_is_dcp(Get(con), FALSE, dpp_scope_active).result
            ELSE RelEntrQuad_is_dcp(Get(con), FALSE, dpp_scope_active).result

\* C8's case: is_dqcp() outside any scope on a RelEntrQuad with a product of
\* parameters among its operands, where is_dcp(dpp=True) would differ.
C8_Witness ==
    /\ last.op = "is_dqcp"
    /\ IsRelEntrQuad
    /\ ~dpp_scope_active
    /\ last.result
    /\ \E t \in {Get(con).x, Get(con).y, Get(con).z} : t.leaf.kind = "ParamProduct"

\* C9: residual returns None, builds no Variable and solves nothing while x, y
\* or z has no value; with all three valued it solves the nested problem over
\* a constraint of the same variant (and the same m and k) and returns its
\* optimal value.
C9_ResidualNeedsValues ==
    last.op = "residual" =>
        LET self == Get(con)
            missing == \E t \in {self.x, self.y, self.z} : value_is_None(t, valued)
        IN  /\ missing =>
                /\ IsNone(last.result)
                /\ last.fresh = <<>>
                /\ IsNone(last.constr)
                /\ ~last.solved
            /\ ~missing =>
                /\ last.solved
                /\ last.result = Some(last.opt)
                /\ Len(last.fresh) = 3
                /\ ~IsNone(last.constr)
                /\ Get(last.constr).variant = self.variant
                /\ Get(last.constr).args = last.fresh
                /\ self.variant = "RelEntrQuad" =>
                    Get(last.constr).m = self.m /\ Get(last.constr).k = self.k

\* C9's case: residual of an ExpCone whose x and y have values and whose z has
\* none.
C9_Witness ==
    /\ last.op = "residual"
    /\ IsExpCone
    /\ ~value_is_None(Get(con).x, valued)
    /\ ~value_is_None(Get(con).y, valued)
    /\ value_is_None(Get(con).z, valued)
    /\ IsNone(last.result)

\* C10: RelEntrQuad.save_dual_value(v) raises for no v and changes nothing:
\* the dual slots keep their initial contents whatever is saved.
C10_RelEntrQuadSaveNoOp ==
    /\ (last.op = "save_dual_value" /\ last.self_before.variant = "RelEntrQuad") =>
        /\ last.raised = ""
        /\ con = Some(last.self_before)
    /\ IsRelEntrQuad => \A j \in 1..3 : IsNone(Get(con).dual_variables[j])

\* C10's case: a vector of the length 3n, n > 0, handed to a RelEntrQuad.
C10_Witness ==
    /\ last.op = "save_dual_value"
    /\ IsRelEntrQuad
    /\ Len(last.value) = 3 * size_of(Get(con).x)
    /\ Len(last.value) > 0

====
